---- MODULE Spec2Model ----
(***************************************************************************)
(* Model of the terminal image pipeline of ttrsscli:                       *)
(*   utils/image.py              ImageHandler (fetch, cache, clear)        *)
(*   utils/terminal_graphics.py  detect_terminal, TerminalGraphics         *)
(*   ui/terminal_image.py        TerminalImage, DirectTerminalImage        *)
(*   ui/rich_widgets.py          RichMarkdownView (update, _render_images) *)
(*                                                                         *)
(* Strings that the code splits or joins are sequences of tokens, so that  *)
(* "x.png" is <<"x", ".", "png">> and split('.') / join are computed.      *)
(***************************************************************************)
EXTENDS Integers, Sequences, FiniteSets, TLC

VARIABLES
    image_cache,    \* ImageHandler.image_cache: URL -> cache path
    files,          \* the cache directory: path -> stored body
    requests,       \* number of http_client.get calls made, per URL
    calls,          \* per URL, the fetch_image calls since the last clear_cache call
    clears,         \* number of clear_cache calls made
    ops,            \* number of ImageHandler API calls made so far
    fetchers,       \* fetch_image calls running in threads: position and locals
    env,            \* os.environ: TERM, TERM_PROGRAM, COLORTERM, KITTY_WINDOW_ID
    use_native_protocols,   \* RichMarkdownView.use_native_protocols
    images,         \* RichMarkdownView.images: (url, rendered) in insertion order
    image_widgets,  \* RichMarkdownView.image_widgets: the list object it refers to
    lists,          \* the list objects ever bound to image_widgets
    widgets,        \* every image widget ever constructed and mounted
    stdout,         \* the escape sequences written to sys.stdout, in order
    tasks,          \* the update() coroutines in progress: position and locals
    started,        \* number of update() calls made so far
    resizes,        \* number of terminal resizes so far
    rz_in,          \* _resize_image: the image size and the TerminalGraphics fields
    rz_out,         \* _resize_image: the size of the image it returned
    det_in,         \* detect_terminal: the environments of two runs
    det_out,        \* detect_terminal: what each of the two runs returned
    tg_in,          \* TerminalGraphics: the call made and its arguments
    tg_out,         \* TerminalGraphics: what the call returned or raised
    lsd,            \* a LimitedSizeDict: max_size and its items, oldest first
    lsd_sets,       \* number of item assignments made to it
    lsd_recent,     \* every key assigned so far with its latest value, in the
                    \* order of the latest assignments
    gcv_in,         \* get_conf_value: op_command and what subprocess.run does
    gcv_out,        \* get_conf_value: how it ended, and what it ran and printed
    client_cache,   \* TTRSSClient.cache: cache key -> cached result
    client_ops,     \* number of TTRSSClient method calls made so far
    last_call,      \* the latest TTRSSClient method call: what the wrapper did
    terminal_graphics   \* ImageHandler.terminal_graphics, built with the handler

cacheVars == <<image_cache, files, requests, calls, clears, ops, fetchers>>

viewVars == <<env, use_native_protocols, images, image_widgets, lists, widgets,
              stdout, tasks, started, resizes>>

resizeVars == <<rz_in, rz_out>>

detectVars == <<det_in, det_out>>

encodeVars == <<tg_in, tg_out>>

dictVars == <<lsd, lsd_sets, lsd_recent>>

confVars == <<gcv_in, gcv_out>>

clientVars == <<client_cache, client_ops, last_call>>

graphicsVars == <<terminal_graphics>>

pureVars == <<rz_in, rz_out, det_in, det_out, tg_in, tg_out, lsd, lsd_sets,
              lsd_recent, gcv_in, gcv_out, client_cache, client_ops, last_call,
              terminal_graphics>>

vars == <<image_cache, files, requests, calls, clears, ops, fetchers,
          env, use_native_protocols, images, image_widgets, lists, widgets,
          stdout, tasks, started, resizes, rz_in, rz_out,
          det_in, det_out, tg_in, tg_out, lsd, lsd_sets, lsd_recent,
          gcv_in, gcv_out, client_cache, client_ops, last_call,
          terminal_graphics>>

----------------------------------------------------------------------------
(* Bounds *)

MaxOps == 4
MaxUpdates == 2
MaxResizes == 1
MaxSide == 8
MaxCells == 10
MaxSize == 3
MaxSets == 5
MaxClientOps == 3

----------------------------------------------------------------------------
(* URLs, file names, bodies *)

U1 == [host |-> "a.example", segs |-> << <<"x", ".", "png">> >>]
U2 == [host |-> "b.example", segs |-> << <<"img">>, <<"x", ".", "png">> >>]
U3 == [host |-> "a.example", segs |-> << <<"pic">> >>]

URLs == {U1, U2, U3}

NoPath == <<>>

Png400x300 == [kind |-> "png", w |-> 400, h |-> 300]
Junk == [kind |-> "junk", w |-> 0, h |-> 0]
Partial == [kind |-> "partial", w |-> 0, h |-> 0]

Bodies == {Png400x300, Junk}

Responses ==
    {[status |-> "ok", body |-> b] : b \in Bodies}
        \cup {[status |-> "error", body |-> Junk]}

DiskOutcomes == {"written", "open_error", "write_error"}

FetchOutcomes == {[resp |-> r, disk |-> d] : r \in Responses, d \in DiskOutcomes}

DecimalStr == <<"1", "2", "3", "4", "5", "6", "7", "8", "9">>

RECURSIVE SplitDot(_)
SplitDot(s) ==
    IF \A i \in 1..Len(s) : s[i] # "."
    THEN <<s>>
    ELSE LET k == CHOOSE i \in 1..Len(s) :
                      s[i] = "." /\ \A j \in 1..(i - 1) : s[j] # "."
         IN <<SubSeq(s, 1, k - 1)>> \o SplitDot(SubSeq(s, k + 1, Len(s)))

RECURSIVE JoinDot(_)
JoinDot(parts) ==
    IF Len(parts) = 0 THEN <<>>
    ELSE IF Len(parts) = 1 THEN parts[1]
    ELSE parts[1] \o <<".">> \o JoinDot(Tail(parts))

HasDot(s) == \E i \in 1..Len(s) : s[i] = "."

\* Path(url_parts.path).name, then the fallback for an empty name, then the
\* default extension.
FileNameOf(url) ==
    LET name == IF url.segs = <<>> THEN <<>> ELSE url.segs[Len(url.segs)]
        path_parts == IF url.segs = <<>> THEN << <<>> >> ELSE url.segs
        filename == IF name = <<>>
                    THEN (IF Len(path_parts) > 0
                          THEN path_parts[Len(path_parts)]
                          ELSE <<"image">>)
                    ELSE name
    IN IF HasDot(filename) THEN filename ELSE filename \o <<".", "jpg">>

Suffixed(filename, count) ==
    LET name_parts == SplitDot(filename)
    IN IF Len(name_parts) > 1
       THEN LET ext == name_parts[Len(name_parts)]
                base == JoinDot(SubSeq(name_parts, 1, Len(name_parts) - 1))
            IN base \o <<"_", DecimalStr[count]>> \o <<".">> \o ext
       ELSE filename \o <<"_", DecimalStr[count]>>

RECURSIVE UniquePathFrom(_, _, _)
UniquePathFrom(existing, filename, count) ==
    LET cache_path == IF count = 0 THEN filename ELSE Suffixed(filename, count)
    IN IF cache_path \in existing
       THEN UniquePathFrom(existing, filename, count + 1)
       ELSE cache_path

UniquePathNoCheck(existing, filename) == filename

UniquePath(existing, filename) == UniquePathFrom(existing, filename, 0)

----------------------------------------------------------------------------
(* ImageHandler.fetch_image *)

CacheHitAlwaysMiss(cache, url) == FALSE

CacheHit(cache, url) == url \in DOMAIN cache

\* The result of fetch_image(url) on handler state c = [image_cache, files]
\* when the server answers out.resp and the disk write ends as out.disk.
Fetch(c, url, out) ==
    IF CacheHit(c.image_cache, url)
    THEN [image_cache |-> c.image_cache, files |-> c.files,
          ret |-> c.image_cache[url], made |-> FALSE]
    ELSE LET cache_path == UniquePath(DOMAIN c.files, FileNameOf(url))
         IN IF out.resp.status # "ok" \/ out.disk = "open_error"
            THEN [image_cache |-> c.image_cache, files |-> c.files,
                  ret |-> NoPath, made |-> TRUE]
            ELSE IF out.disk = "write_error"
            THEN [image_cache |-> c.image_cache,
                  files |-> (cache_path :> Partial) @@ c.files,
                  ret |-> NoPath, made |-> TRUE]
            ELSE [image_cache |-> (url :> cache_path) @@ c.image_cache,
                  files |-> (cache_path :> out.resp.body) @@ c.files,
                  ret |-> cache_path, made |-> TRUE]

Handler == [image_cache |-> image_cache, files |-> files]

FetchImage(url) ==
    /\ ops < MaxOps
    /\ \E out \in FetchOutcomes :
          LET r == Fetch(Handler, url, out)
          IN /\ image_cache' = r.image_cache
             /\ files' = r.files
             /\ requests' = [requests EXCEPT ![url] = @ + (IF r.made THEN 1 ELSE 0)]
             /\ calls' = [calls EXCEPT
                             ![url] = Append(@, [made |-> r.made, ret |-> r.ret])]
    /\ ops' = ops + 1
    /\ UNCHANGED <<clears, fetchers, viewVars>>
    /\ UNCHANGED pureVars

----------------------------------------------------------------------------
(* ImageHandler.fetch_image called from two threads *)

\* fetch_image takes no lock, so a call running in one thread can be
\* overtaken by a call in another wherever it blocks: before the GET and
\* before the file is opened for writing.
Callers == {1, 2}

NotCalling == [pc |-> "idle", url |-> U1, cache_path |-> NoPath,
               out |-> [resp |-> [status |-> "error", body |-> Junk], disk |-> "written"],
               overlaps |-> FALSE, made |-> FALSE, wrote |-> FALSE, ret |-> NoPath]

InFlight(c, url) == fetchers[c].pc \in {"get", "write"} /\ fetchers[c].url = url

Returns(c, f, ret) ==
    /\ fetchers' = [fetchers EXCEPT ![c] = [f EXCEPT !.pc = "returned", !.ret = ret]]
    /\ calls' = [calls EXCEPT ![f.url] = Append(@, [made |-> f.made, ret |-> ret])]

\* Lines 73-103: the index lookup, then the first unused file name.
FetchStart(c, url) ==
    /\ ops < MaxOps
    /\ fetchers[c].pc \in {"idle", "returned"}
    /\ ops' = ops + 1
    /\ LET f == [NotCalling EXCEPT
                   !.url = url,
                   !.overlaps = \E other \in Callers \ {c} : InFlight(other, url)]
       IN IF CacheHit(image_cache, url)
          THEN Returns(c, f, image_cache[url])
          ELSE /\ fetchers' = [fetchers EXCEPT
                                 ![c] = [f EXCEPT
                                           !.pc = "get",
                                           !.cache_path =
                                               UniquePath(DOMAIN files, FileNameOf(url))]]
               /\ UNCHANGED calls
    /\ UNCHANGED <<image_cache, files, requests, clears, viewVars>>
    /\ UNCHANGED pureVars

\* Lines 106-107: the request and raise_for_status.
FetchGet(c) ==
    /\ fetchers[c].pc = "get"
    /\ requests' = [requests EXCEPT ![fetchers[c].url] = @ + 1]
    /\ \E out \in FetchOutcomes :
          LET f == [fetchers[c] EXCEPT !.made = TRUE, !.out = out]
          IN IF out.resp.status # "ok"
             THEN Returns(c, f, NoPath)
             ELSE /\ fetchers' = [fetchers EXCEPT ![c] = [f EXCEPT !.pc = "write"]]
                  /\ UNCHANGED calls
    /\ UNCHANGED <<image_cache, files, clears, ops, viewVars>>
    /\ UNCHANGED pureVars

\* Lines 110-115: the file is opened for writing, which truncates a file of
\* that name, written, and entered in the index.
FetchWrite(c) ==
    /\ fetchers[c].pc = "write"
    /\ LET f == fetchers[c]
       IN IF f.out.disk = "open_error"
          THEN /\ Returns(c, f, NoPath)
               /\ UNCHANGED <<image_cache, files>>
          ELSE IF f.out.disk = "write_error"
          THEN /\ Returns(c, [f EXCEPT !.wrote = TRUE], NoPath)
               /\ files' = (f.cache_path :> Partial) @@ files
               /\ UNCHANGED image_cache
          ELSE /\ Returns(c, [f EXCEPT !.wrote = TRUE], f.cache_path)
               /\ files' = (f.cache_path :> f.out.resp.body) @@ files
               /\ image_cache' = (f.url :> f.cache_path) @@ image_cache
    /\ UNCHANGED <<requests, clears, ops, viewVars>>
    /\ UNCHANGED pureVars

----------------------------------------------------------------------------
(* ImageHandler.clear_cache *)

Restrict(f, S) == [x \in S |-> f[x]]

\* Either every file is unlinked and the index is emptied, or unlink raises
\* on some file: the files reached before it are gone, the rest (kept) stay,
\* and the except branch leaves the index as it was.
ClearCache ==
    /\ ops < MaxOps
    /\ \/ /\ files' = <<>>
          /\ image_cache' = <<>>
       \/ \E kept \in (SUBSET DOMAIN files) \ {{}} :
             /\ files' = Restrict(files, kept)
             /\ UNCHANGED image_cache
    /\ calls' = [u \in URLs |-> <<>>]
    /\ clears' = clears + 1
    /\ ops' = ops + 1
    /\ UNCHANGED <<requests, fetchers, viewVars>>
    /\ UNCHANGED pureVars

----------------------------------------------------------------------------
(* terminal_graphics.detect_terminal *)

EnvNone == [TERM |-> <<>>, TERM_PROGRAM |-> <<>>, COLORTERM |-> <<>>,
            KITTY_WINDOW_ID |-> <<>>]
EnvITerm == [TERM |-> <<"xterm", "-", "256color">>,
             TERM_PROGRAM |-> <<"iTerm.app">>, COLORTERM |-> <<"truecolor">>,
             KITTY_WINDOW_ID |-> <<>>]
EnvKitty == [TERM |-> <<"xterm", "-", "kitty">>,
             TERM_PROGRAM |-> <<>>, COLORTERM |-> <<"truecolor">>,
             KITTY_WINDOW_ID |-> <<"1">>]

Envs == {EnvNone, EnvITerm, EnvKitty}

LowerToken(tok) == IF tok = "iTerm.app" THEN "iterm.app" ELSE tok

Lower(s) == [i \in 1..Len(s) |-> LowerToken(s[i])]

Contains(s, tok) == \E i \in 1..Len(s) : s[i] = tok

detect_terminal_truecolor_first(e) ==
    LET term == Lower(e.TERM)
        term_program == Lower(e.TERM_PROGRAM)
        colorterm == Lower(e.COLORTERM)
    IN IF term_program = <<"iterm.app">> THEN "ITERM2"
       ELSE IF term = <<"xterm", "-", "kitty">> THEN "KITTY"
       ELSE IF Contains(colorterm, "truecolor") THEN "UNICODE"
       ELSE IF Contains(term, "sixel") THEN "SIXEL"
       ELSE IF Contains(term, "256color") THEN "BLOCK"
       ELSE "NONE"

detect_terminal_window_id(e) ==
    LET term == Lower(e.TERM)
        term_program == Lower(e.TERM_PROGRAM)
        colorterm == Lower(e.COLORTERM)
    IN IF term_program = <<"iterm.app">> THEN "ITERM2"
       ELSE IF term = <<"xterm", "-", "kitty">> \/ e.KITTY_WINDOW_ID # <<>> THEN "KITTY"
       ELSE IF Contains(term, "sixel") THEN "SIXEL"
       ELSE IF Contains(colorterm, "truecolor") THEN "UNICODE"
       ELSE IF Contains(term, "256color") THEN "BLOCK"
       ELSE "NONE"

detect_terminal(e) ==
    LET term == Lower(e.TERM)
        term_program == Lower(e.TERM_PROGRAM)
        colorterm == Lower(e.COLORTERM)
    IN IF term_program = <<"iterm.app">> THEN "ITERM2"
       ELSE IF term = <<"xterm", "-", "kitty">> THEN "KITTY"
       ELSE IF Contains(term, "sixel") THEN "SIXEL"
       ELSE IF Contains(colorterm, "truecolor") THEN "UNICODE"
       ELSE IF Contains(term, "256color") THEN "BLOCK"
       ELSE "NONE"

NativeTerminals == {"ITERM2", "KITTY"}

\* The environments detection is run in; KITTY_WINDOW_ID stands for the
\* variables of os.environ that detect_terminal does not read.
Terms == {<<>>, <<"xterm">>, <<"xterm", "-", "kitty">>, <<"xterm", "-", "256color">>,
          <<"foot", "-", "sixel">>, <<"mlterm", "-", "sixel", "-", "256color">>}

TermPrograms == {<<>>, <<"iTerm.app">>, <<"Apple_Terminal">>}

ColorTerms == {<<>>, <<"truecolor">>, <<"24bit">>}

WindowIds == {<<>>, <<"1">>}

DetectEnvs == [TERM : Terms, TERM_PROGRAM : TermPrograms, COLORTERM : ColorTerms,
               KITTY_WINDOW_ID : WindowIds]

\* Two runs of detect_terminal(), each in its own environment.
Detect ==
    /\ det_out = <<>>
    /\ det_out' = <<detect_terminal(det_in[1]), detect_terminal(det_in[2])>>
    /\ UNCHANGED <<cacheVars, viewVars, resizeVars, det_in, encodeVars, dictVars,
                   confVars, clientVars, graphicsVars>>

----------------------------------------------------------------------------
(* PIL Image.thumbnail, as called by the widgets and by render_image *)

Abs(n) == IF n < 0 THEN -n ELSE n

Max2(a, b) == IF a >= b THEN a ELSE b

Min2(a, b) == IF a <= b THEN a ELSE b

CeilDiv(a, b) == (a + b - 1) \div b

\* Fits w x h into the box x x y, keeping the aspect ratio and never
\* enlarging; the rounded side is the floor or ceiling that is closer to the
\* source aspect ratio, and at least 1.
ThumbnailStretch(w, h, x, y) == [w |-> x, h |-> y]

Thumbnail(w, h, x, y) ==
    IF x >= w /\ y >= h THEN [w |-> w, h |-> h]
    ELSE IF x * h >= w * y
    THEN LET f == (y * w) \div h
             c == CeilDiv(y * w, h)
             n == IF Abs(w * y - f * h) <= Abs(w * y - c * h) THEN f ELSE c
         IN [w |-> Max2(n, 1), h |-> y]
    ELSE LET f == (x * h) \div w
             c == CeilDiv(x * h, w)
             n == IF f = 0 THEN f
                  ELSE IF Abs(w * f - x * h) * c <= Abs(w * c - x * h) * f
                  THEN f ELSE c
         IN [w |-> x, h |-> Max2(n, 1)]

Decodable(body) == body.kind = "png"

----------------------------------------------------------------------------
(* ImageHandler.render_image and process_images *)

max_image_width == 80
max_image_height == 20

PathRendered(path) == [kind |-> "path", path |-> path, w |-> 0, h |-> 0]

render_image(fs, image_path, native) ==
    IF image_path \notin DOMAIN fs THEN PathRendered(image_path)
    ELSE IF native THEN PathRendered(image_path)
    ELSE IF ~Decodable(fs[image_path]) THEN PathRendered(image_path)
    ELSE LET t == Thumbnail(fs[image_path].w, fs[image_path].h,
                            max_image_width, max_image_height)
         IN [kind |-> "pixels", path |-> image_path, w |-> t.w, h |-> t.h]

RECURSIVE ProcessFromAbort(_, _, _, _, _)
ProcessFromAbort(h, doc, outs, i, native) ==
    IF i > Len(doc) THEN h
    ELSE LET url == doc[i]
             r == Fetch(h, url, outs[i])
             base == [h EXCEPT
                        !.image_cache = r.image_cache,
                        !.files = r.files,
                        !.requests[url] = @ + (IF r.made THEN 1 ELSE 0),
                        !.calls[url] = Append(@, [made |-> r.made, ret |-> r.ret])]
         IN IF r.ret = NoPath
            THEN [base EXCEPT !.failed = @ \cup {url}]
            ELSE ProcessFromAbort(
                     [base EXCEPT !.rendered =
                         Append(@, [url |-> url,
                                    rendered |-> render_image(r.files, r.ret, native)])],
                     doc, outs, i + 1, native)

\* process_images(doc) from handler state h, the i-th fetch ending as outs[i];
\* h carries the handler's fields, the call history, and the results so far.
RECURSIVE ProcessFrom(_, _, _, _, _)
ProcessFrom(h, doc, outs, i, native) ==
    IF i > Len(doc) THEN h
    ELSE LET url == doc[i]
             r == Fetch(h, url, outs[i])
             base == [h EXCEPT
                        !.image_cache = r.image_cache,
                        !.files = r.files,
                        !.requests[url] = @ + (IF r.made THEN 1 ELSE 0),
                        !.calls[url] = Append(@, [made |-> r.made, ret |-> r.ret])]
             next == IF r.ret = NoPath
                     THEN [base EXCEPT !.failed = @ \cup {url}]
                     ELSE [base EXCEPT !.rendered =
                              Append(@, [url |-> url,
                                         rendered |-> render_image(r.files, r.ret, native)])]
         IN ProcessFrom(next, doc, outs, i + 1, native)

process_images(doc, outs, native) ==
    ProcessFrom([image_cache |-> image_cache, files |-> files,
                 requests |-> requests, calls |-> calls,
                 rendered |-> <<>>, failed |-> {}],
                doc, outs, 1, native)

----------------------------------------------------------------------------
(* DirectTerminalImage *)

EscapeSeq(wid, terminal_type, body, mw, mh) ==
    LET t == Thumbnail(body.w, body.h, mw * 10, mh * 10)
    IN [wid |-> wid,
        proto |-> IF terminal_type = "ITERM2" THEN "iterm2" ELSE "kitty",
        width |-> t.w, height |-> t.h, src |-> body]

\* The number of lines of the Text that render() returns.
Rows(wg) ==
    IF wg.terminal_type \in NativeTerminals /\ wg.rendered
    THEN Max2(1, Min2(wg.max_height \div 2, 10))
    ELSE 1

Painted(wg) == [wg EXCEPT !.rows = Rows(wg), !.paints = @ + 1]

AlreadyRenderedNever(wg) == FALSE

AlreadyRendered(wg) == wg.rendered

\* Whether render_direct of widget wg reaches sys.stdout.write.
WritesNow(wg) ==
    /\ ~AlreadyRendered(wg)
    /\ wg.terminal_type \in NativeTerminals
    /\ wg.path \in DOMAIN files
    /\ Decodable(files[wg.path])

\* render_direct of widget wg: the widget and the stream afterwards.
render_direct(wid, wg, out) ==
    IF wg.kind = "DirectTerminalImage" /\ WritesNow(wg)
    THEN [widget |-> [wg EXCEPT !.rendered = TRUE],
          stdout |-> Append(out, EscapeSeq(wid, wg.terminal_type, files[wg.path],
                                           wg.max_width, wg.max_height))]
    ELSE [widget |-> wg, stdout |-> out]

BeingMountedOrRemoved(wg) == wg.st \in {"attached", "removed"}

\* The Mount event, the only caller of render_direct, is delivered to a
\* widget that mount() has attached and that has not handled it yet.
BeingMounted(wg) == wg.st = "attached"

\* mount() of a widget is being awaited: the toolkit delivers Mount, whose
\* handler on_mount calls render_direct, and then lays the widget out and
\* paints it, calling render().
OnMount(wid) ==
    /\ wid \in 1..Len(widgets)
    /\ BeingMounted(widgets[wid])
    /\ LET r == render_direct(wid, widgets[wid], stdout)
       IN /\ stdout' = r.stdout
          /\ widgets' = [widgets EXCEPT
                           ![wid] = IF r.widget.kind = "DirectTerminalImage"
                                    THEN Painted([r.widget EXCEPT !.st = "mounted"])
                                    ELSE [r.widget EXCEPT !.st = "mounted"]]
    /\ UNCHANGED <<cacheVars, env, use_native_protocols, images, image_widgets,
                   lists, tasks, started, resizes>>
    /\ UNCHANGED pureVars

\* A further render_direct call on a mounted widget.
RenderDirect(wid) ==
    /\ wid \in 1..Len(widgets)
    /\ widgets[wid].kind = "DirectTerminalImage"
    /\ widgets[wid].st = "mounted"
    /\ LET r == render_direct(wid, widgets[wid], stdout)
       IN /\ stdout' = r.stdout
          /\ widgets' = [widgets EXCEPT ![wid] = [r.widget EXCEPT !.recalled = TRUE]]
    /\ UNCHANGED <<cacheVars, env, use_native_protocols, images, image_widgets,
                   lists, tasks, started, resizes>>
    /\ UNCHANGED pureVars

\* The terminal is resized: the toolkit lays out again and calls render() of
\* every mounted widget; no handler of the widgets or of the
\* view reacts to the resize.
Resize ==
    /\ resizes < MaxResizes
    /\ resizes' = resizes + 1
    /\ widgets' = [wid \in 1..Len(widgets) |->
                      IF /\ widgets[wid].kind = "DirectTerminalImage"
                         /\ widgets[wid].st = "mounted"
                      THEN Painted(widgets[wid])
                      ELSE widgets[wid]]
    /\ UNCHANGED <<cacheVars, env, use_native_protocols, images, image_widgets,
                   lists, stdout, tasks, started>>
    /\ UNCHANGED pureVars

\* ImageHandler.__init__ builds a TerminalGraphics, which detects the
\* terminal in its constructor, only when use_native_protocols is set.
NoGraphics == [terminal_type |-> "unset"]

TerminalGraphics(e) == [terminal_type |-> detect_terminal(e)]

\* os.environ is reassigned while the process runs.
SetEnv(e) ==
    /\ e # env
    /\ env' = e
    /\ UNCHANGED <<cacheVars, use_native_protocols, images, image_widgets,
                   lists, widgets, stdout, tasks, started, resizes>>
    /\ UNCHANGED pureVars

----------------------------------------------------------------------------
(* RichMarkdownView.update and _render_images *)

Docs == {<<>>, <<U1>>}

\* The fetch outcomes the view is driven with: a disk error ends fetch_image
\* with the same return value as an HTTP error.
ViewFetchOutcomes == {out \in FetchOutcomes : out.disk = "written"}

\* At most two update() coroutines of the view are in progress at a time; a
\* slot is free again once its coroutine has returned.
Slots == {1, 2}

Idle == [pc |-> "idle", call |-> 0, doc |-> <<>>, failed |-> {}, list |-> 0,
         idx |-> 0, terminal_type |-> "unset", imgs |-> <<>>, k |-> 0, wid |-> 0]

Free(t) == tasks[t].pc \in {"idle", "done"}

\* The widget _render_images constructs for one entry of self.images,
\* choosing by its local terminal_type; the widget detects the terminal
\* again in its constructor. The TerminalImage constructor rejects the
\* use_native_protocols keyword, so that branch ends in the except clause
\* and its fallback Static.
NewWidget(t, entry, terminal_type) ==
    LET common == [text |-> "", url |-> entry.url, path |-> entry.rendered.path,
                   max_width |-> max_image_width,
                   max_height |-> max_image_height,
                   terminal_type |-> detect_terminal(env),
                   view_type |-> terminal_type,
                   rendered |-> FALSE, recalled |-> FALSE, st |-> "attached",
                   rows |-> 0, paints |-> 0, by |-> tasks[t].call]
    IN IF entry.rendered.kind = "path"
       THEN IF terminal_type \in NativeTerminals /\ use_native_protocols
            THEN [kind |-> "DirectTerminalImage"] @@ common
            ELSE [kind |-> "Static", text |-> "[Error displaying image: ...]"]
                     @@ common
       ELSE IF entry.rendered.kind = "pixels"
       THEN [kind |-> "Static", text |-> "<pixels>"] @@ common
       ELSE [kind |-> "Static", text |-> "[Image: <name>]"] @@ common

\* The image loop from its k-th entry: done, or construct the widget, call
\* mount() and suspend.
MountImage(t, tk, imgs, k, ws) ==
    IF k > Len(imgs)
    THEN /\ widgets' = ws
         /\ tasks' = [tasks EXCEPT ![t] = [tk EXCEPT !.pc = "done", !.imgs = <<>>,
                                                    !.k = 0, !.wid = 0,
                                                    !.terminal_type = "unset"]]
    ELSE /\ widgets' = Append(ws, NewWidget(t, imgs[k], tk.terminal_type))
         /\ tasks' = [tasks EXCEPT ![t] = [tk EXCEPT !.pc = "await_mount",
                                                    !.imgs = imgs, !.k = k,
                                                    !.wid = Len(ws) + 1]]

IsMounted(wg) == wg.st # "removed"

\* The removal loop over list object l from index i: remove() the next
\* mounted widget and suspend, or leave the loop, bind a fresh list and
\* start the image loop.
ContinueRemoval(t, l, i) ==
    LET live == {j \in i..Len(lists[l]) : IsMounted(widgets[lists[l][j]])}
    IN IF live # {}
       THEN LET j == CHOOSE m \in live : \A n \in live : m <= n
            IN /\ widgets' = [widgets EXCEPT ![lists[l][j]].st = "removed"]
               /\ tasks' = [tasks EXCEPT ![t].pc = "await_remove",
                                         ![t].list = l, ![t].idx = j + 1]
               /\ UNCHANGED <<lists, image_widgets>>
       ELSE /\ lists' = Append(lists, <<>>)
            /\ image_widgets' = Len(lists) + 1
            /\ MountImage(t, [tasks[t] EXCEPT !.list = 0, !.idx = 0,
                                              !.terminal_type = detect_terminal(env)],
                          images, 1, widgets)

\* update(markdown) up to its first await: extract the images, fetch and
\* render each of them, store self.images.
UpdateCall(t, doc) ==
    /\ started < MaxUpdates
    /\ Free(t)
    /\ \A other \in Slots : Free(other) => t <= other
    /\ \E outs \in [1..Len(doc) -> ViewFetchOutcomes] :
          LET h == process_images(doc, outs, use_native_protocols)
          IN /\ image_cache' = h.image_cache
             /\ files' = h.files
             /\ requests' = h.requests
             /\ calls' = h.calls
             /\ images' = h.rendered
             /\ tasks' = [tasks EXCEPT ![t] = [Idle EXCEPT !.pc = "await_md",
                                                          !.call = started + 1,
                                                          !.doc = doc,
                                                          !.failed = h.failed]]
    /\ started' = started + 1
    /\ UNCHANGED <<clears, ops, fetchers, env, use_native_protocols,
                   image_widgets, lists, widgets, stdout, resizes>>
    /\ UNCHANGED pureVars

\* After the markdown container is updated: enter _render_images.
ResumeMd(t) ==
    /\ tasks[t].pc = "await_md"
    /\ ContinueRemoval(t, image_widgets, 1)
    /\ UNCHANGED <<cacheVars, env, use_native_protocols, images, stdout, started,
                   resizes>>
    /\ UNCHANGED pureVars

ResumeRemove(t) ==
    /\ tasks[t].pc = "await_remove"
    /\ ContinueRemoval(t, tasks[t].list, tasks[t].idx)
    /\ UNCHANGED <<cacheVars, env, use_native_protocols, images, stdout, started,
                   resizes>>
    /\ UNCHANGED pureVars

\* mount() has completed: record the widget and go on with the next image.
ResumeMount(t) ==
    /\ tasks[t].pc = "await_mount"
    /\ widgets[tasks[t].wid].st # "attached"
    /\ lists' = [lists EXCEPT ![image_widgets] = Append(@, tasks[t].wid)]
    /\ MountImage(t, tasks[t], tasks[t].imgs, tasks[t].k + 1, widgets)
    /\ UNCHANGED <<cacheVars, env, use_native_protocols, images, image_widgets,
                   stdout, started, resizes>>
    /\ UNCHANGED pureVars

----------------------------------------------------------------------------
(* TerminalGraphics._resize_image *)

width_scale == 1
height_scale == 2

\* int(dim * ratio) for the float ratio = num / den: the floor of the exact
\* product, or one less when the exact product is a whole number that the
\* rounded quotient can fall short of.
IntOfProduct(dim, num, den) ==
    LET q == (dim * num) \div den
    IN IF (dim * num) % den = 0 /\ num % den # 0 THEN {q, q - 1} ELSE {q}

ResizedAlways(orig, new_width, new_height) ==
    IF new_width < 1 \/ new_height < 1
    THEN [status |-> "ValueError", w |-> 0, h |-> 0]
    ELSE [status |-> "ok", w |-> new_width, h |-> new_height]

\* The tail of _resize_image: the image itself when the new size is not
\* smaller, else img.resize, which rejects a size below 1x1.
Resized(orig, new_width, new_height) ==
    IF new_width >= orig.w /\ new_height >= orig.h
    THEN [status |-> "ok", w |-> orig.w, h |-> orig.h]
    ELSE IF new_width < 1 \/ new_height < 1
    THEN [status |-> "ValueError", w |-> 0, h |-> 0]
    ELSE [status |-> "ok", w |-> new_width, h |-> new_height]

RatioWidthOnly(term_width, term_height, orig) ==
    [num |-> term_width, den |-> orig.w]

\* min(width_ratio, height_ratio), as a fraction.
Ratio(term_width, term_height, orig) ==
    IF term_width * orig.h <= term_height * orig.w
    THEN [num |-> term_width, den |-> orig.w]
    ELSE [num |-> term_height, den |-> orig.h]

\* The results _resize_image can return for an image of size orig.
resize_image(orig, max_width, max_height, preserve_aspect_ratio) ==
    LET term_width == max_width \div width_scale
        term_height == max_height \div height_scale
    IN IF ~preserve_aspect_ratio
       THEN {Resized(orig, term_width, term_height)}
       ELSE IF orig.w = 0 \/ orig.h = 0
       THEN {[status |-> "ZeroDivisionError", w |-> 0, h |-> 0]}
       ELSE LET ratio == Ratio(term_width, term_height, orig)
            IN {Resized(orig, nw, nh) :
                    nw \in IntOfProduct(orig.w, ratio.num, ratio.den),
                    nh \in IntOfProduct(orig.h, ratio.num, ratio.den)}

Pending == [status |-> "pending", w |-> 0, h |-> 0]

\* An image decoded by Image.open has at least one pixel each way; the only
\* TerminalGraphics the program builds (image.py:50) keeps the default
\* preserve_aspect_ratio.
ResizeInputs ==
    [w : 1..MaxSide, h : 1..MaxSide, max_width : 0..MaxCells,
     max_height : 0..MaxCells, preserve_aspect_ratio : {TRUE}]

ResizeImage ==
    /\ rz_out = Pending
    /\ rz_out' \in resize_image(rz_in, rz_in.max_width, rz_in.max_height,
                                 rz_in.preserve_aspect_ratio)
    /\ UNCHANGED <<cacheVars, viewVars, rz_in, detectVars, encodeVars, dictVars,
                   confVars, clientVars, graphicsVars>>

----------------------------------------------------------------------------
(* TerminalGraphics._render_unicode and the other encoders *)

\* A pixel is named by the place in the source image it was copied from;
\* Black is the fill colour of Image.new.
Black == [x |-> -1, y |-> -1]

\* Pixel (x, y), counted from 0, of an image of img.h rows after it was
\* pasted at (0, 0) onto a black canvas.
PixelAt(img, x, y) == IF y < img.h /\ x < img.w THEN [x |-> x, y |-> y] ELSE Black

\* The characters of the returned string: a coloured half-block or "\n".
NewLine == [nl |-> TRUE, fg |-> Black, bg |-> Black]

rgb_to_halfblock(upper_rgb, lower_rgb) ==
    [nl |-> FALSE, fg |-> upper_rgb, bg |-> lower_rgb]

PaddedHeight(height) == IF height % 2 = 1 THEN height + 1 ELSE height

RowStartsFloor(height) == [i \in 1..((height - 1) \div 2) |-> 2 * (i - 1)]

\* range(0, height, 2)
RowStarts(height) == [i \in 1..((height + 1) \div 2) |-> 2 * (i - 1)]

RECURSIVE JoinLines(_)
JoinLines(result) ==
    IF Len(result) = 0 THEN <<>>
    ELSE IF Len(result) = 1 THEN result[1]
    ELSE result[1] \o <<NewLine>> \o JoinLines(Tail(result))

RECURSIVE SplitLines(_)
SplitLines(text) ==
    IF \A i \in 1..Len(text) : text[i] # NewLine
    THEN <<text>>
    ELSE LET k == CHOOSE i \in 1..Len(text) :
                      text[i] = NewLine /\ \A j \in 1..(i - 1) : text[j] # NewLine
         IN <<SubSeq(text, 1, k - 1)>> \o SplitLines(SubSeq(text, k + 1, Len(text)))

render_unicode(img) ==
    LET width == img.w
        height == PaddedHeight(img.h)
        ys == RowStarts(height)
        line(y) == [c \in 1..width |->
                       IF y + 1 >= height
                       THEN rgb_to_halfblock(PixelAt(img, c - 1, y), PixelAt(img, c - 1, y))
                       ELSE rgb_to_halfblock(PixelAt(img, c - 1, y),
                                             PixelAt(img, c - 1, y + 1))]
    IN JoinLines([i \in 1..Len(ys) |-> line(ys[i])])

NoText == <<>>

Returned(kind, rows, w, h, text) ==
    [status |-> "returned", kind |-> kind, rows |-> rows, w |-> w, h |-> h,
     text |-> text, failed |-> "none"]

\* An exception raised inside the try block of render_image.
Raised(failed) ==
    [status |-> "raised", kind |-> "exception", rows |-> 0, w |-> 0, h |-> 0,
     text |-> NoText, failed |-> failed]

\* _render_block: the image is shrunk to at most max_width // 2 columns by
\* img.resize, which rejects a size below 1x1, then one character per pixel.
render_block(img, max_width) ==
    LET new_width == Min2(img.w, max_width \div 2)
    IN {IF new_width < 1 \/ new_height < 1
        THEN Raised("encode")
        ELSE Returned("characters", new_height, new_width, new_height, NoText) :
            new_height \in IntOfProduct(img.h, new_width, img.w)}

\* The encoder render_image picks for an RGB image img.
Encoded(terminal_type, img, max_width) ==
    IF terminal_type \in {"ITERM2", "KITTY"}
    THEN {Returned("escape", 1, img.w, img.h, NoText)}
    ELSE IF terminal_type = "SIXEL"
    THEN {Returned("text", 1, img.w, img.h, NoText)}
    ELSE IF terminal_type = "UNICODE"
    THEN LET text == render_unicode(img)
         IN {Returned("halfblocks", Len(SplitLines(text)), img.w, img.h, text)}
    ELSE render_block(img, max_width)

CaughtNever(r) == r

\* The except clause of render_image: the text line [Image: <name>].
Caught(r) ==
    IF r.status = "raised"
    THEN [status |-> "returned", kind |-> "text", rows |-> 1, w |-> 0, h |-> 0,
          text |-> NoText, failed |-> r.failed]
    ELSE r

\* TerminalGraphics.render_image on a file with the given body.
TG_render_image(terminal_type, body, max_width, max_height) ==
    IF ~Decodable(body) THEN {Caught(Raised("decode"))}
    ELSE UNION {IF rz.status # "ok"
                THEN {Caught(Raised("resize"))}
                ELSE {Caught(r) : r \in Encoded(terminal_type,
                                                [w |-> rz.w, h |-> rz.h], max_width)} :
                   rz \in resize_image([w |-> body.w, h |-> body.h],
                                       max_width, max_height, TRUE)}

TerminalTypes == {"UNKNOWN", "ITERM2", "KITTY", "SIXEL", "UNICODE", "BLOCK", "NONE"}

EncodeBodies == {Junk} \cup {[kind |-> "png", w |-> w, h |-> h] :
                                 w \in 1..MaxSide, h \in 1..MaxSide}

\* The calls made on a TerminalGraphics: render_image of a cached file, and
\* _render_unicode of an image of at least one pixel each way.
EncodeInputs ==
    {[fn |-> "render_image", terminal_type |-> t, body |-> b,
      max_width |-> mw, max_height |-> mh] :
         t \in TerminalTypes, b \in EncodeBodies,
         mw \in {0, 1, MaxCells}, mh \in {0, 1, MaxCells}}
    \cup
    {[fn |-> "_render_unicode", terminal_type |-> "UNICODE", body |-> b,
      max_width |-> 0, max_height |-> 0] : b \in EncodeBodies \ {Junk}}

TgPending == [status |-> "pending"]

RenderImage ==
    /\ tg_out = TgPending
    /\ tg_in.fn = "render_image"
    /\ tg_out' \in TG_render_image(tg_in.terminal_type, tg_in.body,
                                   tg_in.max_width, tg_in.max_height)
    /\ UNCHANGED <<cacheVars, viewVars, resizeVars, detectVars, tg_in, dictVars,
                   confVars, clientVars, graphicsVars>>

RenderUnicode ==
    /\ tg_out = TgPending
    /\ tg_in.fn = "_render_unicode"
    /\ LET text == render_unicode([w |-> tg_in.body.w, h |-> tg_in.body.h])
       IN tg_out' = Returned("halfblocks", Len(SplitLines(text)),
                             tg_in.body.w, tg_in.body.h, text)
    /\ UNCHANGED <<cacheVars, viewVars, resizeVars, detectVars, tg_in, dictVars,
                   confVars, clientVars, graphicsVars>>

----------------------------------------------------------------------------
(* cache.LimitedSizeDict *)

Keys == {"a", "b", "c", "d", "e"}

Values == {1, 2}

HasKey(items, key) == \E i \in 1..Len(items) : items[i].key = key

Without(items, key) == SelectSeq(items, LAMBDA it : it.key # key)

\* OrderedDict.move_to_end(key)
move_to_end_noop(items, key) == items

move_to_end(items, key) ==
    LET it == CHOOSE e \in {items[i] : i \in 1..Len(items)} : e.key = key
    IN Append(Without(items, key), it)

\* OrderedDict.__setitem__: a new key goes to the end, a present key keeps
\* its place and gets the new value.
StoreItem(items, key, value) ==
    IF HasKey(items, key)
    THEN [i \in 1..Len(items) |->
             IF items[i].key = key THEN [key |-> key, value |-> value] ELSE items[i]]
    ELSE Append(items, [key |-> key, value |-> value])

EvictedNever(items, max_size) == items

\* if len(self) > self.max_size: self.popitem(last=False)
Evicted(items, max_size) ==
    IF Len(items) > max_size THEN Tail(items) ELSE items

setitem(d, key, value) ==
    LET moved == IF HasKey(d.items, key) THEN move_to_end(d.items, key) ELSE d.items
    IN [d EXCEPT !.items = Evicted(StoreItem(moved, key, value), d.max_size)]

SetItem(key, value) ==
    /\ lsd_sets < MaxSets
    /\ lsd_sets' = lsd_sets + 1
    /\ lsd' = setitem(lsd, key, value)
    /\ lsd_recent' = Append(Without(lsd_recent, key), [key |-> key, value |-> value])
    /\ UNCHANGED <<cacheVars, viewVars, resizeVars, detectVars, encodeVars,
                   confVars, clientVars, graphicsVars>>

----------------------------------------------------------------------------
(* ttrsscli.get_conf_value *)

\* A string is the sequence of its words and whitespace characters.
IsSpace(tok) == tok \in {" ", "\n"}

startswith_always(s, prefix) == TRUE

startswith(s, prefix) ==
    Len(s) >= Len(prefix) /\ SubSeq(s, 1, Len(prefix)) = prefix

RECURSIVE split(_)
split(s) ==
    IF s = <<>> THEN <<>>
    ELSE IF IsSpace(Head(s)) THEN split(Tail(s))
    ELSE <<Head(s)>> \o split(Tail(s))

RECURSIVE lstrip(_)
lstrip(s) == IF s # <<>> /\ IsSpace(Head(s)) THEN lstrip(Tail(s)) ELSE s

RECURSIVE rstrip(_)
rstrip(s) ==
    IF s # <<>> /\ IsSpace(s[Len(s)]) THEN rstrip(SubSeq(s, 1, Len(s) - 1)) ELSE s

strip(s) == rstrip(lstrip(s))

\* subprocess.run(check=True) either completes with the command's output or
\* raises.
Completed(out) == [exc |-> "none", stdout |-> out]

RunRaises(exc) == [exc |-> exc, stdout |-> <<>>]

HandledErrors == {"CalledProcessError", "FileNotFoundError", "NameResolutionError"}

GcvPending ==
    [status |-> "pending", value |-> <<>>, code |-> 0, args |-> <<>>,
     runs |-> 0, prints |-> 0]

get_conf_value(op_command, run) ==
    IF startswith(op_command, <<"op", " ">>)
    THEN LET args == split(op_command)
         IN IF run.exc = "none"
            THEN [status |-> "returned", value |-> strip(run.stdout), code |-> 0,
                  args |-> args, runs |-> 1, prints |-> 0]
            ELSE IF run.exc \in HandledErrors
            THEN [status |-> "exited", value |-> <<>>, code |-> 1,
                  args |-> args, runs |-> 1, prints |-> 1]
            ELSE [status |-> "raised", value |-> <<run.exc>>, code |-> 0,
                  args |-> args, runs |-> 1, prints |-> 0]
    ELSE [status |-> "returned", value |-> op_command, code |-> 0,
          args |-> <<>>, runs |-> 0, prints |-> 0]

ConfValues ==
    {<<>>, <<"secret">>, <<"op">>, <<"op", " ">>, <<"opx", " ", "read">>,
     <<" ", "op", " ", "read">>, <<"op", " ", "read", " ", "op://vault/item">>,
     <<"op", " ", " ", "read", "\n">>}

Stdouts ==
    {<<>>, <<"\n">>, <<"test_value">>, <<"test_value", "\n">>,
     <<" ", "a", " ", "b", "\n", "\n">>}

RunOutcomes ==
    {Completed(out) : out \in Stdouts}
        \cup {RunRaises(exc) : exc \in HandledErrors \cup {"PermissionError"}}

GetConfValue ==
    /\ gcv_out = GcvPending
    /\ gcv_out' = get_conf_value(gcv_in.op_command, gcv_in.run)
    /\ UNCHANGED <<cacheVars, viewVars, resizeVars, detectVars, encodeVars,
                   dictVars, gcv_in, clientVars, graphicsVars>>

----------------------------------------------------------------------------
(* client.TTRSSClient and utils.decorators.handle_session_expiration *)

max_retries == 3

NoCall == [method |-> "none"]

\* A cache key is the sequence of its words and underscores.
ArticleKey(article_id) == <<"article", "_", article_id>>

CategoriesKey == <<"categories">>

FeedsKey(cat_id, unread_only) == <<"feeds", "_", cat_id, "_", unread_only>>

HeadlinesKey(feed_id, is_cat, view_mode) ==
    <<"headlines", "_", feed_id, "_", is_cat, "_", view_mode>>

FeedPropertiesKey(feed_id) == <<"feed", "_", "properties", "_", feed_id>>

\* self.cache[k] = v and del self.cache[k]
Put(c, k, v) == [x \in DOMAIN c \cup {k} |-> IF x = k THEN v ELSE c[x]]

Del(c, k) == [x \in DOMAIN c \ {k} |-> c[x]]

invalidate_headlines_only(c) ==
    [x \in {k \in DOMAIN c : ~startswith(k, <<"headlines", "_">>)} |-> c[x]]

invalidate_headline_cache(c) ==
    [x \in {k \in DOMAIN c : /\ ~startswith(k, <<"headlines", "_">>)
                             /\ k # CategoriesKey
                             /\ ~startswith(k, <<"feeds", "_">>)} |-> c[x]]

\* What one call of the ttrss API does: it returns data or raises.
ApiOk(data) == [exc |-> "none", msg |-> <<>>, data |-> data]

Raises(exc, msg) == [exc |-> exc, msg |-> msg, data |-> "None"]

ApiOutcomes ==
    {ApiOk("d1"),
     Raises("Exception", <<"NOT_LOGGED_IN">>),
     Raises("ConnectionResetError", <<"Connection", "reset", "by", "peer">>),
     Raises("Exception", <<"API_DISABLED">>)}

ApiKind(o) ==
    IF o.exc = "none" THEN "ok"
    ELSE IF o.exc = "ConnectionResetError" THEN "ConnectionResetError"
    ELSE IF Contains(o.msg, "NOT_LOGGED_IN") THEN "NOT_LOGGED_IN"
    ELSE "other"

\* How a method body ends: its cache, what it returned or raised, and what
\* its API call, if it made one, did.
MethodReturned(c, value, api) ==
    [cache |-> c, raised |-> FALSE, value |-> value, err |-> ApiOk("None"),
     api |-> api]

MethodRaised(c, o) ==
    [cache |-> c, raised |-> TRUE, value |-> "None", err |-> o, api |-> ApiKind(o)]

\* The body shared by the four cached getters of client.py: a cached result,
\* or the API result stored and returned, or [] when the API call raises.
CachedOrFetched(c, cache_key, o) ==
    IF cache_key \in DOMAIN c THEN MethodReturned(c, c[cache_key], "nocall")
    ELSE IF o.exc # "none" THEN MethodReturned(c, "[]", ApiKind(o))
    ELSE MethodReturned(Put(c, cache_key, o.data), o.data, "ok")

get_articles(c, article_id, o) == CachedOrFetched(c, ArticleKey(article_id), o)

get_categories(c, o) == CachedOrFetched(c, CategoriesKey, o)

get_feeds(c, cat_id, unread_only, o) ==
    CachedOrFetched(c, FeedsKey(cat_id, unread_only), o)

get_headlines(c, feed_id, is_cat, view_mode, o) ==
    CachedOrFetched(c, HeadlinesKey(feed_id, is_cat, view_mode), o)

\* The getter of ttrsscli.py has no try around its API call.
ttrsscli_get_articles(c, article_id, o) ==
    IF ArticleKey(article_id) \in DOMAIN c
    THEN MethodReturned(c, c[ArticleKey(article_id)], "nocall")
    ELSE IF o.exc # "none" THEN MethodRaised(c, o)
    ELSE MethodReturned(Put(c, ArticleKey(article_id), o.data), o.data, "ok")

mark_read(c, article_id, o) ==
    MethodReturned(invalidate_headline_cache(c), "None", ApiKind(o))

mark_unread(c, article_id, o) ==
    MethodReturned(invalidate_headline_cache(c), "None", ApiKind(o))

toggle_starred(c, article_id, o) ==
    MethodReturned(Del(c, ArticleKey(article_id)), "None", ApiKind(o))

toggle_unread(c, article_id, o) ==
    MethodReturned(invalidate_headline_cache(Del(c, ArticleKey(article_id))),
                   "None", ApiKind(o))

subscribe_to_feed(c, o) ==
    IF o.exc # "none" THEN MethodReturned(c, "None", ApiKind(o))
    ELSE MethodReturned(invalidate_headline_cache(c), o.data, "ok")

unsubscribe_feed(c, feed_id, o) ==
    IF o.exc # "none" THEN MethodReturned(c, "None", ApiKind(o))
    ELSE MethodReturned(invalidate_headline_cache(c), o.data, "ok")

\* The API answers with a feed that has its feed_url, or raises.
get_feed_properties(c, feed_id, o) ==
    IF FeedPropertiesKey(feed_id) \in DOMAIN c
    THEN MethodReturned(c, c[FeedPropertiesKey(feed_id)], "nocall")
    ELSE IF o.exc # "none" THEN MethodRaised(c, o)
    ELSE MethodReturned(Put(c, FeedPropertiesKey(feed_id), o.data), o.data, "ok")

update_feed_properties(c, feed_id, o) ==
    IF o.exc # "none" THEN MethodReturned(c, "None", ApiKind(o))
    ELSE MethodReturned(
             invalidate_headline_cache(Del(c, FeedPropertiesKey(feed_id))),
             o.data, "ok")

mark_all_read(c, feed_id, o) ==
    IF o.exc # "none" THEN MethodReturned(c, "False", ApiKind(o))
    ELSE MethodReturned(invalidate_headline_cache(c), "True", "ok")

Ids == {"1", "2"}

Getters == {"get_articles", "get_categories", "get_feeds", "get_headlines"}

Changers ==
    {"mark_read", "mark_unread", "toggle_unread", "subscribe_to_feed",
     "unsubscribe_feed", "update_feed_properties", "mark_all_read"}

Methods ==
    Getters \cup Changers
        \cup {"toggle_starred", "get_feed_properties", "ttrsscli.get_articles"}

\* api_method(self, *args): the body of method m called with id arg.
api_method(m, c, arg, o) ==
    CASE m = "get_articles" -> get_articles(c, arg, o)
      [] m = "get_categories" -> get_categories(c, o)
      [] m = "get_feeds" -> get_feeds(c, arg, "False", o)
      [] m = "get_headlines" -> get_headlines(c, arg, "False", "all_articles", o)
      [] m = "ttrsscli.get_articles" -> ttrsscli_get_articles(c, arg, o)
      [] m = "mark_read" -> mark_read(c, arg, o)
      [] m = "mark_unread" -> mark_unread(c, arg, o)
      [] m = "toggle_starred" -> toggle_starred(c, arg, o)
      [] m = "toggle_unread" -> toggle_unread(c, arg, o)
      [] m = "subscribe_to_feed" -> subscribe_to_feed(c, o)
      [] m = "unsubscribe_feed" -> unsubscribe_feed(c, arg, o)
      [] m = "get_feed_properties" -> get_feed_properties(c, arg, o)
      [] m = "update_feed_properties" -> update_feed_properties(c, arg, o)
      [] m = "mark_all_read" -> mark_all_read(c, arg, o)

\* TTRSSClient.login: True only when the API logs in and reports a valid
\* session; every exception is caught.
LoginOutcomes == {"ok", "session not valid", "raises"}

login(o) == o = "ok"

IsSessionExpiredAny(err) == TRUE

IsSessionExpired(err) == Contains(err.msg, "NOT_LOGGED_IN")

CallEvent(r, o) ==
    [ev |-> "call", api |-> r.api, raised |-> r.raised, ok |-> ~r.raised,
     data |-> IF r.api = "ok" THEN o.data ELSE "None"]

LoginEvent(ok) ==
    [ev |-> "login", api |-> "nocall", raised |-> FALSE, ok |-> ok,
     data |-> "None"]

WrapperReturned(c, value, trace) ==
    [status |-> "returned", value |-> value, err |-> ApiOk("None"),
     cache |-> c, trace |-> trace]

WrapperRaised(c, err, trace) ==
    [status |-> "raised", value |-> "None", err |-> err, cache |-> c,
     trace |-> trace]

\* After a session failure: login again, then go round the loop, or raise.
RECURSIVE wrapper(_, _, _, _, _)
Relogin(m, arg, c, retry_count, trace) ==
    UNION {IF login(lo)
           THEN wrapper(m, arg, c, retry_count, Append(trace, LoginEvent(TRUE)))
           ELSE {WrapperRaised(c, Raises("RuntimeError",
                                         <<"Re-authentication", "failed">>),
                               Append(trace, LoginEvent(FALSE)))}
           : lo \in LoginOutcomes}

\* The ways the wrapper's loop can run from its retry_count-th round, the
\* API call of each invocation of the method ending in any of ApiOutcomes.
wrapper(m, arg, c, retry_count, trace) ==
    IF ~(retry_count < max_retries)
    THEN {WrapperRaised(c, Raises("RuntimeError",
                                  <<"Failed", "after", "3", "retries">>), trace)}
    ELSE UNION {LET r == api_method(m, c, arg, o)
                    tr == Append(trace, CallEvent(r, o))
                IN IF ~r.raised THEN {WrapperReturned(r.cache, r.value, tr)}
                   ELSE IF r.err.exc = "ConnectionResetError"
                   THEN Relogin(m, arg, r.cache, retry_count + 1, tr)
                   ELSE IF IsSessionExpired(r.err)
                   THEN Relogin(m, arg, r.cache, retry_count + 1, tr)
                   ELSE {WrapperRaised(r.cache, r.err, tr)}
                : o \in ApiOutcomes}

\* One call of a decorated TTRSSClient method.
Call(m, arg) ==
    /\ client_ops < MaxClientOps
    /\ client_ops' = client_ops + 1
    /\ \E run \in wrapper(m, arg, client_cache, 0, <<>>) :
          /\ client_cache' = run.cache
          /\ last_call' = [method |-> m, arg |-> arg, before |-> client_cache,
                           status |-> run.status, value |-> run.value,
                           err |-> run.err, trace |-> run.trace]
    /\ UNCHANGED <<cacheVars, viewVars, resizeVars, detectVars, encodeVars,
                   dictVars, confVars, graphicsVars>>

----------------------------------------------------------------------------

InitCache ==
    /\ image_cache = <<>>
    /\ files = <<>>
    /\ requests = [u \in URLs |-> 0]
    /\ calls = [u \in URLs |-> <<>>]
    /\ clears = 0
    /\ ops = 0
    /\ fetchers = [c \in Callers |-> NotCalling]

InitView ==
    /\ images = <<>>
    /\ lists = << <<>> >>
    /\ image_widgets = 1
    /\ widgets = <<>>
    /\ stdout = <<>>
    /\ tasks = [t \in Slots |-> Idle]
    /\ started = 0
    /\ resizes = 0

InitRz ==
    /\ rz_in = [w |-> 1, h |-> 1, max_width |-> 0, max_height |-> 0,
                preserve_aspect_ratio |-> TRUE]
    /\ rz_out = Pending

InitDet ==
    /\ det_in = <<EnvNone, EnvNone>>
    /\ det_out = <<>>

InitTg ==
    /\ tg_in = [fn |-> "none"]
    /\ tg_out = TgPending

InitLsd ==
    /\ lsd = [max_size |-> 0, items |-> <<>>]
    /\ lsd_sets = 0
    /\ lsd_recent = <<>>

InitGraphics ==
    terminal_graphics = IF use_native_protocols THEN TerminalGraphics(env)
                        ELSE NoGraphics

InitGcv ==
    /\ gcv_in = [op_command |-> <<>>, run |-> Completed(<<>>)]
    /\ gcv_out = GcvPending

InitClient ==
    /\ client_cache = <<>>
    /\ client_ops = 0
    /\ last_call = NoCall

InitPure ==
    /\ InitRz
    /\ InitDet
    /\ InitTg
    /\ InitLsd
    /\ InitGcv
    /\ InitClient

Init ==
    /\ InitCache
    /\ InitView
    /\ InitPure
    /\ env \in Envs
    /\ use_native_protocols \in BOOLEAN
    /\ InitGraphics

InitCacheOnly ==
    /\ InitCache
    /\ InitView
    /\ InitPure
    /\ env = EnvNone
    /\ use_native_protocols = TRUE
    /\ InitGraphics

NextCache ==
    \/ \E url \in URLs : FetchImage(url)
    \/ ClearCache

SpecCache == InitCacheOnly /\ [][NextCache]_vars

Next ==
    \/ \E t \in Slots : \E doc \in Docs : UpdateCall(t, doc)
    \/ \E t \in Slots : ResumeMd(t)
    \/ \E t \in Slots : ResumeRemove(t)
    \/ \E t \in Slots : ResumeMount(t)
    \/ \E wid \in 1..Len(widgets) : OnMount(wid)
    \/ \E wid \in 1..Len(widgets) : RenderDirect(wid)
    \/ Resize

Spec == Init /\ [][Next]_vars

InitResize ==
    /\ InitCache
    /\ InitView
    /\ env = EnvNone
    /\ use_native_protocols = TRUE
    /\ rz_in \in ResizeInputs
    /\ rz_out = Pending
    /\ InitDet
    /\ InitTg
    /\ InitLsd
    /\ InitGcv
    /\ InitClient
    /\ InitGraphics

NextResize == ResizeImage

SpecResize == InitResize /\ [][NextResize]_vars

\* The view showing articles with two images.
ArticleDocs == {<<U1, U3>>}

NextArticle ==
    \/ \E t \in Slots : \E doc \in ArticleDocs : UpdateCall(t, doc)
    \/ \E t \in Slots : ResumeMd(t)
    \/ \E t \in Slots : ResumeRemove(t)
    \/ \E t \in Slots : ResumeMount(t)
    \/ \E wid \in 1..Len(widgets) : OnMount(wid)

SpecArticle == Init /\ [][NextArticle]_vars

NextThreads ==
    \/ \E c \in Callers : \E url \in URLs : FetchStart(c, url)
    \/ \E c \in Callers : FetchGet(c)
    \/ \E c \in Callers : FetchWrite(c)

SpecThreads == InitCacheOnly /\ [][NextThreads]_vars

\* The view with clear_cache() of its image handler called at any time.
NextClear ==
    \/ \E t \in Slots : \E doc \in Docs : UpdateCall(t, doc)
    \/ \E t \in Slots : ResumeMd(t)
    \/ \E t \in Slots : ResumeRemove(t)
    \/ \E t \in Slots : ResumeMount(t)
    \/ \E wid \in 1..Len(widgets) : OnMount(wid)
    \/ ClearCache

SpecClear == Init /\ [][NextClear]_vars

InitDetect ==
    /\ InitCache
    /\ InitView
    /\ env = EnvNone
    /\ use_native_protocols = TRUE
    /\ InitRz
    /\ InitTg
    /\ InitLsd
    /\ det_in \in DetectEnvs \X DetectEnvs
    /\ det_out = <<>>
    /\ InitGcv
    /\ InitClient
    /\ InitGraphics

NextDetect == Detect

SpecDetect == InitDetect /\ [][NextDetect]_vars

InitDict ==
    /\ InitCache
    /\ InitView
    /\ env = EnvNone
    /\ use_native_protocols = TRUE
    /\ InitRz
    /\ InitDet
    /\ InitTg
    /\ lsd \in {[max_size |-> n, items |-> <<>>] : n \in 0..MaxSize}
    /\ lsd_sets = 0
    /\ lsd_recent = <<>>
    /\ InitGcv
    /\ InitClient
    /\ InitGraphics

NextDict == \E key \in Keys : \E value \in Values : SetItem(key, value)

SpecDict == InitDict /\ [][NextDict]_vars

InitEncode ==
    /\ InitCache
    /\ InitView
    /\ env = EnvNone
    /\ use_native_protocols = TRUE
    /\ InitRz
    /\ InitDet
    /\ InitLsd
    /\ tg_in \in EncodeInputs
    /\ tg_out = TgPending
    /\ InitGcv
    /\ InitClient
    /\ InitGraphics

NextEncode ==
    \/ RenderImage
    \/ RenderUnicode

SpecEncode == InitEncode /\ [][NextEncode]_vars

NextEnv ==
    \/ \E t \in Slots : \E doc \in Docs : UpdateCall(t, doc)
    \/ \E t \in Slots : ResumeMd(t)
    \/ \E t \in Slots : ResumeRemove(t)
    \/ \E t \in Slots : ResumeMount(t)
    \/ \E wid \in 1..Len(widgets) : OnMount(wid)
    \/ \E e \in Envs : SetEnv(e)

SpecEnv == Init /\ [][NextEnv]_vars

InitClientOnly ==
    /\ InitCache
    /\ InitView
    /\ env = EnvNone
    /\ use_native_protocols = TRUE
    /\ InitPure
    /\ InitGraphics

NextClient == \E m \in Methods : \E arg \in Ids : Call(m, arg)

SpecClient == InitClientOnly /\ [][NextClient]_vars

InitConf ==
    /\ InitCache
    /\ InitView
    /\ env = EnvNone
    /\ use_native_protocols = TRUE
    /\ InitRz
    /\ InitDet
    /\ InitTg
    /\ InitLsd
    /\ InitClient
    /\ gcv_in \in [op_command : ConfValues, run : RunOutcomes]
    /\ gcv_out = GcvPending
    /\ InitGraphics

NextConf == GetConfValue

SpecConf == InitConf /\ [][NextConf]_vars

----------------------------------------------------------------------------
(* Claims about the fetch cache, checked under SpecCache *)

\* C1 (as stated): any two fetch_image calls of one URL with no clear_cache
\* between them make at most one network request in total and return the
\* identical path.
C1_TwoFetchesOneRequest ==
    \A u \in URLs : \A i, j \in 1..Len(calls[u]) :
        i < j =>
            /\ ~(calls[u][i].made /\ calls[u][j].made)
            /\ calls[u][i].ret = calls[u][j].ret

\* C1 (amended): once a fetch_image call of a URL has returned a path, every
\* later call of that URL with no clear_cache between them makes no network
\* request and returns that same path, so the two calls make at most one
\* request in total.
C1_RefetchAfterSuccessIsNoOp ==
    \A u \in URLs : \A i, j \in 1..Len(calls[u]) :
        (i < j /\ calls[u][i].ret # NoPath) =>
            /\ ~calls[u][j].made
            /\ calls[u][j].ret = calls[u][i].ret

C1_Witness ==
    \E u \in URLs :
        /\ Len(calls[u]) >= 2
        /\ calls[u][1].made
        /\ calls[u][1].ret # NoPath
        /\ calls[u][2].ret = calls[u][1].ret

\* C2 (as stated): after clear_cache has been called, the next fetch_image of
\* any URL makes a fresh network request.
C2_FreshRequestAfterClear ==
    clears > 0 =>
        \A u \in URLs : Len(calls[u]) >= 1 => calls[u][1].made

\* The index maps every cached URL to a file of its own.
OneFilePerUrl ==
    /\ \A u \in DOMAIN image_cache : image_cache[u] \in DOMAIN files
    /\ \A u1, u2 \in DOMAIN image_cache :
           image_cache[u1] = image_cache[u2] => u1 = u2

\* A step leaves every cached URL with its path and its file's content.
KeepsCachedFiles ==
    \A u \in DOMAIN image_cache :
        /\ u \in DOMAIN image_cache'
        /\ image_cache'[u] = image_cache[u]
        /\ image_cache[u] \in DOMAIN files'
        /\ files'[image_cache[u]] = files[image_cache[u]]

\* C19: as long as clear_cache has not been called, after any sequence of
\* fetch_image calls no two URLs share a cache path (a taken file name gets a
\* numeric suffix) and no fetch replaces the file or the path of a URL
\* already cached.
C19_OneFilePerUrl ==
    /\ [](clears = 0 => OneFilePerUrl)
    /\ [][clears' = 0 => KeepsCachedFiles]_vars

C19_Witness ==
    /\ clears = 0
    /\ U1 \in DOMAIN image_cache
    /\ U2 \in DOMAIN image_cache
    /\ image_cache[U1] = <<"x", ".", "png">>
    /\ image_cache[U2] = <<"x", "_", "1", ".", "png">>
    /\ files[image_cache[U1]] # files[image_cache[U2]]

----------------------------------------------------------------------------
(* Claims about concurrent fetches, checked under SpecThreads *)

\* C15 (as stated): a fetch_image call that starts while another call for
\* the same URL is in flight reuses that call's result: the two make at most
\* one network request and at most one cache-file write between them.
C15_InFlightFetchIsShared ==
    \A c, other \in Callers :
        (/\ c # other
         /\ fetchers[c].overlaps
         /\ fetchers[other].pc # "idle"
         /\ fetchers[other].url = fetchers[c].url) =>
            /\ ~(fetchers[c].made /\ fetchers[other].made)
            /\ ~(fetchers[c].wrote /\ fetchers[other].wrote)

\* C28 (as stated): whatever fetch_image and clear_cache calls were made,
\* failed ones included, every URL in image_cache maps to a file present in
\* the cache directory, and a URL whose fetches since the last clear_cache
\* all failed is not in image_cache.
C28_IndexedFilesExist ==
    /\ \A u \in DOMAIN image_cache : image_cache[u] \in DOMAIN files
    /\ \A u \in URLs :
           (clears = 0 /\ \A i \in 1..Len(calls[u]) : calls[u][i].ret = NoPath) =>
               u \notin DOMAIN image_cache

----------------------------------------------------------------------------
(* Claims about the view and its image widgets, checked under Spec *)

Writes(wid) == Cardinality({i \in 1..Len(stdout) : stdout[i].wid = wid})

IsDirect(wid) == widgets[wid].kind = "DirectTerminalImage"

AllDone == \A t \in Slots : Free(t)

\* C3 (as stated): when the fetch of an image fails, fetch_image returns an
\* error value, update() still completes, and the view has rendered a text
\* placeholder for that image.
C3_FailedFetchRendersPlaceholder ==
    \A t \in Slots :
        tasks[t].pc = "done" =>
            \A u \in tasks[t].failed :
                \E wid \in 1..Len(widgets) :
                    /\ widgets[wid].by = tasks[t].call
                    /\ widgets[wid].url = u
                    /\ widgets[wid].kind = "Static"

\* C4: a DirectTerminalImage writes its escape sequence at most once, however
\* often on_mount / render_direct run, and exactly once when its rendered
\* flag is set.
C4_OneWritePerDisplay ==
    \A wid \in 1..Len(widgets) :
        /\ Writes(wid) <= 1
        /\ (IsDirect(wid) /\ widgets[wid].rendered) <=> (Writes(wid) = 1)

C4_Witness ==
    \E wid \in 1..Len(widgets) :
        /\ IsDirect(wid)
        /\ widgets[wid].rendered
        /\ widgets[wid].recalled
        /\ Writes(wid) = 1

\* C5 (as stated): after two update() calls have both finished, the
\* native-protocol image widgets left in the layout (the blank-line
\* reservations) are those of the second call only, each displayed one with
\* exactly one write.
C5_SecondRenderSupersedesFirst ==
    (started >= 2 /\ AllDone) =>
        \A wid \in 1..Len(widgets) :
            (IsDirect(wid) /\ IsMounted(widgets[wid])) =>
                /\ widgets[wid].by = started
                /\ widgets[wid].rendered => Writes(wid) = 1

\* C6 (as stated): every render pass of a displayed native-protocol image,
\* the first one and each one after a resize, has its escape sequence
\* written to the stream.
C6_RerenderReemits ==
    \A wid \in 1..Len(widgets) :
        (IsDirect(wid) /\ widgets[wid].st = "mounted" /\ widgets[wid].rendered) =>
            Writes(wid) >= widgets[wid].paints

ProportionalTo(w, h, sw, sh) == Abs(w * sh - h * sw) <= Max2(sw, sh)

\* C7: on a native-protocol terminal a 400x300 image in the 80x20 budget is
\* written with declared pixel dimensions of at most 800x800, proportional
\* to 400x300 within one pixel, and its widget renders 10 blank rows.
C7_ScenarioDimsAndRows ==
    \A i \in 1..Len(stdout) :
        LET wg == widgets[stdout[i].wid]
        IN (stdout[i].src = Png400x300 /\ wg.max_width = 80 /\ wg.max_height = 20) =>
              /\ stdout[i].width <= 800
              /\ stdout[i].height <= 800
              /\ ProportionalTo(stdout[i].width, stdout[i].height, 400, 300)
              /\ wg.paints > 0 => wg.rows = 10

C7_Witness ==
    \E i \in 1..Len(stdout) :
        /\ stdout[i].src = Png400x300
        /\ stdout[i].width = 267
        /\ stdout[i].height = 200
        /\ widgets[stdout[i].wid].max_height = 20
        /\ widgets[stdout[i].wid].rows = 10

\* C8 (as stated): with no environment signal set, detection yields NONE,
\* every image is shown as the text placeholder [Image: ...], nothing is
\* written to the stream and no extra rows are reserved.
C8_NoSignalsPlaceholder ==
    env = EnvNone =>
        /\ detect_terminal(env) = "NONE"
        /\ stdout = <<>>
        /\ \A wid \in 1..Len(widgets) :
              /\ widgets[wid].kind = "Static"
              /\ widgets[wid].text = "[Image: <name>]"
              /\ widgets[wid].rows = 0

\* Two update() calls are both between their first await and their return.
Overlapping == \E t1, t2 \in Slots : t1 # t2 /\ ~Free(t1) /\ ~Free(t2)

\* C23 (as stated): the steps of two update() calls on one view are never
\* interleaved, and once both have finished every image widget still
\* mounted, of whatever kind, is one the newer call built.
C23_NewerRequestSupersedes ==
    /\ ~Overlapping
    /\ (started >= 2 /\ AllDone) =>
           \A wid \in 1..Len(widgets) :
               IsMounted(widgets[wid]) => widgets[wid].by = started

----------------------------------------------------------------------------
(* Claims about the view while the environment changes, checked under SpecEnv *)

\* The capabilities the consumers hold: the handler's TerminalGraphics, the
\* view's choice for each widget it built, each DirectTerminalImage.
Observed ==
    ({terminal_graphics.terminal_type} \ {"unset"})
        \cup {widgets[wid].view_type : wid \in 1..Len(widgets)}
        \cup {widgets[wid].terminal_type :
                  wid \in {w \in 1..Len(widgets) : IsDirect(w)}}

\* C25 (as stated): the image handler, the view and the image widgets all
\* hold one and the same terminal capability, whenever the environment
\* signals changed after the first detection.
C25_OneCapabilityPerProcess == Cardinality(Observed) <= 1

----------------------------------------------------------------------------
(* Claims about the view while the cache is cleared, checked under SpecClear *)

C14_InFlightRenderSurvivesClear ==
    \A wid \in 1..Len(widgets) :
        (IsDirect(wid) /\ widgets[wid].st = "mounted" /\ ~widgets[wid].rendered) =>
            /\ widgets[wid].path \in DOMAIN files
            /\ ~Decodable(files[widgets[wid].path])

----------------------------------------------------------------------------
(* Claims about articles with several images, checked under SpecArticle *)

InDoc(doc, u) == \E i \in 1..Len(doc) : doc[i] = u

\* C16: when update() has returned, every image of the article whose fetch
\* succeeded has a widget built by that call and mounted, whatever happened
\* to the other image; on a native-protocol terminal it is displayed unless
\* its own file cannot be decoded.
C16_BadImageDoesNotAbortOthers ==
    \A t \in Slots :
        tasks[t].pc = "done" =>
            \A u \in URLs :
                (InDoc(tasks[t].doc, u) /\ u \notin tasks[t].failed) =>
                    \E wid \in 1..Len(widgets) :
                        /\ widgets[wid].by = tasks[t].call
                        /\ widgets[wid].url = u
                        /\ widgets[wid].st # "attached"
                        /\ (/\ IsDirect(wid)
                            /\ widgets[wid].path \in DOMAIN files
                            /\ Decodable(files[widgets[wid].path])) =>
                               widgets[wid].rendered

C16_Witness ==
    \E t \in Slots :
        /\ tasks[t].pc = "done"
        /\ tasks[t].doc = <<U1, U3>>
        /\ tasks[t].failed = {U1}
        /\ \E wid \in 1..Len(widgets) :
              /\ widgets[wid].by = tasks[t].call
              /\ widgets[wid].url = U3
              /\ IsDirect(wid)
              /\ widgets[wid].rendered
              /\ Writes(wid) = 1

----------------------------------------------------------------------------
(* Claims about the resampler, checked under SpecResize *)

TermWidth == rz_in.max_width \div width_scale

TermHeight == rz_in.max_height \div height_scale

\* C9: whatever _resize_image returns is no larger than the budget in pixels
\* and has the source aspect ratio within one pixel of rounding.
C9_WithinBudgetKeepsAspect ==
    rz_out.status = "ok" =>
        /\ rz_out.w <= TermWidth
        /\ rz_out.h <= TermHeight
        /\ ProportionalTo(rz_out.w, rz_out.h, rz_in.w, rz_in.h)

C9_Witness ==
    /\ rz_out.status = "ok"
    /\ rz_in.w > TermWidth
    /\ rz_out.w = TermWidth
    /\ rz_out.h < rz_in.h
    /\ rz_out.w * rz_in.h # rz_out.h * rz_in.w

\* C10: an image that already fits the budget in pixels is returned with its
\* size unchanged, and no returned side is larger than the source side.
C10_NeverUpscales ==
    /\ (rz_out # Pending /\ rz_in.w <= TermWidth /\ rz_in.h <= TermHeight) =>
           (rz_out.status = "ok" /\ rz_out.w = rz_in.w /\ rz_out.h = rz_in.h)
    /\ rz_out.status = "ok" => (rz_out.w <= rz_in.w /\ rz_out.h <= rz_in.h)

C10_Witness ==
    /\ rz_out.status = "ok"
    /\ rz_in.w < TermWidth
    /\ rz_in.h < TermHeight
    /\ rz_out.w = rz_in.w
    /\ rz_out.h = rz_in.h

\* C18 (as stated): with a budget of zero pixels in width or in height,
\* _resize_image returns a 1x1 image and raises nothing.
C18_ZeroBudgetGivesOneByOne ==
    (rz_out # Pending /\ (TermWidth = 0 \/ TermHeight = 0)) =>
        rz_out = [status |-> "ok", w |-> 1, h |-> 1]

----------------------------------------------------------------------------
(* Claims about the encoders, checked under SpecEncode *)

IsGlyphRow(line, w) ==
    /\ Len(line) = w
    /\ \A c \in 1..w : ~line[c].nl

\* C11: _render_unicode of an image of width w >= 1 and height h >= 1 returns
\* exactly ceil(h / 2) lines, each of w half-block glyphs.
C11_HalfBlockRowsAreCeil ==
    (tg_in.fn = "_render_unicode" /\ tg_out # TgPending) =>
        LET lines == SplitLines(tg_out.text)
        IN /\ Len(lines) = CeilDiv(tg_in.body.h, 2)
           /\ tg_out.rows = CeilDiv(tg_in.body.h, 2)
           /\ \A i \in 1..Len(lines) : IsGlyphRow(lines[i], tg_in.body.w)

C11_Witness ==
    /\ tg_in.fn = "_render_unicode"
    /\ tg_in.body.h = 3
    /\ tg_in.body.w = 2
    /\ tg_out # TgPending
    /\ tg_out.rows = 2
    /\ tg_out.text[5].bg = Black

\* C27 (as stated): in the text _render_unicode returns, the glyph of line i
\* and column c has the pixel of row 2i - 2 as its foreground colour and the
\* pixel of row 2i - 1 as its background colour; in the last line of an
\* image of odd height the background is the pixel of the last row again.
C27_UpperForegroundLowerBackground ==
    (tg_in.fn = "_render_unicode" /\ tg_out # TgPending) =>
        LET lines == SplitLines(tg_out.text)
            h == tg_in.body.h
        IN \A i \in 1..Len(lines) : \A c \in 1..Len(lines[i]) :
               /\ lines[i][c].fg = [x |-> c - 1, y |-> 2 * i - 2]
               /\ lines[i][c].bg = [x |-> c - 1, y |-> Min2(2 * i - 1, h - 1)]

----------------------------------------------------------------------------
(* Claims about detection, checked under SpecDetect *)

NativeId(e) ==
    \/ Lower(e.TERM_PROGRAM) = <<"iterm.app">>
    \/ Lower(e.TERM) = <<"xterm", "-", "kitty">>

HasSixel(e) == Contains(Lower(e.TERM), "sixel")

HasTruecolor(e) == Contains(Lower(e.COLORTERM), "truecolor")

Has256Color(e) == Contains(Lower(e.TERM), "256color")

\* C13: the capability returned is the first in the order native protocol,
\* sixel, half-block (truecolor), ASCII block (256 colours), none whose signal
\* is present; a signal of lower preference never changes the result.
C13_FixedPreferenceOrder ==
    \A i \in 1..Len(det_out) :
        LET e == det_in[i]
            r == det_out[i]
        IN /\ r \in {"ITERM2", "KITTY", "SIXEL", "UNICODE", "BLOCK", "NONE"}
           /\ (r \in NativeTerminals) <=> NativeId(e)
           /\ (r = "SIXEL") <=> (~NativeId(e) /\ HasSixel(e))
           /\ (r = "UNICODE") <=> (~NativeId(e) /\ ~HasSixel(e) /\ HasTruecolor(e))
           /\ (r = "BLOCK") <=>
                  (~NativeId(e) /\ ~HasSixel(e) /\ ~HasTruecolor(e) /\ Has256Color(e))
           /\ (r = "NONE") <=>
                  (~NativeId(e) /\ ~HasSixel(e) /\ ~HasTruecolor(e) /\ ~Has256Color(e))

C13_Witness ==
    /\ det_out # <<>>
    /\ HasSixel(det_in[1]) /\ HasTruecolor(det_in[1]) /\ Has256Color(det_in[1])
    /\ det_out[1] = "SIXEL"
    /\ NativeId(det_in[2]) /\ HasTruecolor(det_in[2])
    /\ det_out[2] = "KITTY"

\* C17: TerminalGraphics.render_image raises nothing for any terminal type,
\* and when the file cannot be decoded, or resizing or encoding fails, what it
\* returns is one line of text.
C17_EncodersNeverThrow ==
    (tg_in.fn = "render_image" /\ tg_out # TgPending) =>
        /\ tg_out.status = "returned"
        /\ (~Decodable(tg_in.body) \/ tg_out.failed # "none") =>
               (tg_out.kind = "text" /\ tg_out.rows = 1)

C17_Witness ==
    /\ tg_in.fn = "render_image"
    /\ tg_in.terminal_type = "BLOCK"
    /\ Decodable(tg_in.body)
    /\ tg_in.max_width = 1
    /\ tg_in.max_height = MaxCells
    /\ tg_out # TgPending
    /\ tg_out.failed = "encode"
    /\ tg_out.kind = "text"

----------------------------------------------------------------------------
(* Claims about LimitedSizeDict, checked under SpecDict *)

\* C20: after any sequence of item assignments a LimitedSizeDict created
\* with max_size = n holds at most n items, each key once.
C20_AtMostMaxSizeItems ==
    /\ Len(lsd.items) <= lsd.max_size
    /\ \A i, j \in 1..Len(lsd.items) :
           lsd.items[i].key = lsd.items[j].key => i = j

C20_Witness ==
    /\ lsd.max_size = 3
    /\ lsd_sets = 4
    /\ Len(lsd.items) = 3
    /\ ~HasKey(lsd.items, "a")
    /\ lsd.items[1].key = "b"
    /\ lsd.items[2].key = "c"
    /\ lsd.items[3].key = "d"

LastItems(items, n) ==
    IF Len(items) <= n THEN items ELSE SubSeq(items, Len(items) - n + 1, Len(items))

\* C21: a LimitedSizeDict holds the max_size most recently assigned keys, in
\* the order of their latest assignments and with their latest values: an
\* assignment to a present key moves it to the end and evicts nothing, an
\* assignment of a new key to a full dict evicts the key assigned longest ago.
C21_OrderOfLatestAssignment ==
    lsd.items = LastItems(lsd_recent, lsd.max_size)

C21_Witness ==
    /\ lsd.max_size = 3
    /\ lsd_sets = 5
    /\ Len(lsd_recent) = 4
    /\ lsd_recent[1].key = "b"
    /\ lsd.items[1].key = "c"
    /\ lsd.items[2] = [key |-> "a", value |-> 2]
    /\ lsd.items[3].key = "d"

----------------------------------------------------------------------------
(* Claims about get_conf_value, checked under SpecConf *)

StartsWithOp(v) == Len(v) >= 2 /\ v[1] = "op" /\ v[2] = " "

\* out is the part of text between its leading and its trailing whitespace
IsStripOf(out, text) ==
    /\ out = <<>> \/ (~IsSpace(out[1]) /\ ~IsSpace(out[Len(out)]))
    /\ \E i \in 0..Len(text) :
           /\ i + Len(out) <= Len(text)
           /\ SubSeq(text, i + 1, i + Len(out)) = out
           /\ \A k \in 1..Len(text) :
                  (k <= i \/ k > i + Len(out)) => IsSpace(text[k])

\* C22: get_conf_value returns a value that does not start with "op "
\* unchanged and runs no command; for a value that starts with "op " it runs
\* the command once and returns its output stripped of surrounding
\* whitespace; when the command raises CalledProcessError, FileNotFoundError
\* or NameResolutionError it prints one message and exits with status 1.
C22_PlainValueOrCommandOutput ==
    gcv_out.status # "pending" =>
        IF StartsWithOp(gcv_in.op_command)
        THEN /\ gcv_out.runs = 1
             /\ gcv_in.run.exc = "none" =>
                    /\ gcv_out.status = "returned"
                    /\ IsStripOf(gcv_out.value, gcv_in.run.stdout)
                    /\ gcv_out.prints = 0
             /\ gcv_in.run.exc \in HandledErrors =>
                    /\ gcv_out.status = "exited"
                    /\ gcv_out.code = 1
                    /\ gcv_out.prints = 1
        ELSE /\ gcv_out.status = "returned"
             /\ gcv_out.value = gcv_in.op_command
             /\ gcv_out.runs = 0
             /\ gcv_out.prints = 0

C22_Witness ==
    /\ gcv_in.op_command = <<"op", " ", "read", " ", "op://vault/item">>
    /\ gcv_in.run.stdout = <<" ", "a", " ", "b", "\n", "\n">>
    /\ gcv_out.status = "returned"
    /\ gcv_out.runs = 1
    /\ gcv_out.args = <<"op", "read", "op://vault/item">>
    /\ gcv_out.value = <<"a", " ", "b">>

----------------------------------------------------------------------------
(* Claims about TTRSSClient and its decorator, checked under SpecClient *)

Called == last_call.method # "none"

\* C26 (as stated): when the API call of get_articles, get_categories,
\* get_feeds, get_headlines or mark_read fails with NOT_LOGGED_IN, the
\* client calls login(), and when that succeeds calls the method again; a
\* second call whose API call succeeds gives the result returned.
C26_RetriesAfterSessionExpiry ==
    (/\ Called
     /\ last_call.method \in Getters \cup {"mark_read", "ttrsscli.get_articles"}
     /\ last_call.trace[1].api = "NOT_LOGGED_IN") =>
        LET tr == last_call.trace
        IN /\ Len(tr) >= 2
           /\ tr[2].ev = "login"
           /\ tr[2].ok =>
                  /\ Len(tr) >= 3
                  /\ tr[3].ev = "call"
                  /\ tr[3].api = "ok" =>
                         /\ last_call.status = "returned"
                         /\ last_call.method # "mark_read" =>
                                last_call.value = tr[3].data

\* The keys the claim names: "categories", "headlines_...", "feeds_...".
InvalidatedKey(k) ==
    \/ k = <<"categories">>
    \/ Len(k) >= 2 /\ k[1] \in {"headlines", "feeds"} /\ k[2] = "_"

\* The one entry of its own id that an operation deletes besides those.
OwnKeys(m, arg) ==
    IF m = "toggle_unread" THEN {<<"article", "_", arg>>}
    ELSE IF m = "update_feed_properties"
    THEN {<<"feed", "_", "properties", "_", arg>>}
    ELSE {}

OtherEntriesKept ==
    \A k \in DOMAIN last_call.before :
        (~InvalidatedKey(k) /\ k \notin OwnKeys(last_call.method, last_call.arg)) =>
            /\ k \in DOMAIN client_cache
            /\ client_cache[k] = last_call.before[k]

NothingInvalidatedLeft == \A k \in DOMAIN client_cache : ~InvalidatedKey(k)

GetterKey(m, arg) ==
    CASE m = "get_articles" -> <<"article", "_", arg>>
      [] m = "get_categories" -> <<"categories">>
      [] m = "get_feeds" -> <<"feeds", "_", arg, "_", "False">>
      [] m = "get_headlines" ->
             <<"headlines", "_", arg, "_", "False", "_", "all_articles">>

SessionFailed(e) ==
    e.ev = "call" /\ e.raised /\ e.api \in {"ConnectionResetError", "NOT_LOGGED_IN"}

\* C30: every call through handle_session_expiration ends, returning or
\* raising, after at most 3 invocations of the wrapped method; login() is
\* called only straight after an invocation that failed with
\* ConnectionResetError or NOT_LOGGED_IN; a failed login() ends the call with
\* RuntimeError; any other exception of the method ends the call with that
\* exception and no login(); 3 session failures end it with RuntimeError.
C30_WrapperTerminates ==
    Called =>
        LET tr == last_call.trace
            n == Len(tr)
        IN /\ last_call.status \in {"returned", "raised"}
           /\ n >= 1
           /\ Cardinality({i \in 1..n : tr[i].ev = "call"}) <= 3
           /\ \A i \in 1..n :
                  /\ tr[i].ev = "login" => (i > 1 /\ SessionFailed(tr[i - 1]))
                  /\ (tr[i].ev = "login" /\ ~tr[i].ok) =>
                         /\ i = n
                         /\ last_call.status = "raised"
                         /\ last_call.err.exc = "RuntimeError"
                  /\ (tr[i].ev = "call" /\ tr[i].raised /\ tr[i].api = "other") =>
                         /\ i = n
                         /\ last_call.status = "raised"
                         /\ last_call.err.exc = "Exception"
                  /\ (tr[i].ev = "call" /\ ~tr[i].raised) =>
                         (i = n /\ last_call.status = "returned")
           /\ Cardinality({i \in 1..n : SessionFailed(tr[i])}) = 3 =>
                  /\ last_call.status = "raised"
                  /\ last_call.err.exc = "RuntimeError"

C30_Witness ==
    /\ Called
    /\ Len(last_call.trace) = 6
    /\ \A i \in {1, 3, 5} : SessionFailed(last_call.trace[i])
    /\ \A i \in {2, 4, 6} : last_call.trace[i].ev = "login" /\ last_call.trace[i].ok
    /\ last_call.trace[1].api = "NOT_LOGGED_IN"
    /\ last_call.trace[3].api = "ConnectionResetError"
    /\ last_call.status = "raised"
    /\ last_call.err = Raises("RuntimeError", <<"Failed", "after", "3", "retries">>)

====
